---- MODULE Spec2Model ----
(***************************************************************************)
(* Model of entrypoint.py: the DigiKey keyword-search report generator.    *)
(*                                                                         *)
(* Conventions                                                             *)
(*   - a JSON object / Python dict is a record; a missing key is a field   *)
(*     that is not in the record's DOMAIN;                                 *)
(*   - a Python str that the code searches with `in` is a sequence of      *)
(*     text fragments, and `sub in s` is "sub is a contiguous run of s";   *)
(*   - Python None is the string "None" for scalar fields and NoneList for *)
(*     the pricing field (whose other values are lists);                   *)
(*   - category objects live in a heap (id -> object) so that the          *)
(*     ChildCategories references may form any graph.                      *)
(***************************************************************************)
EXTENDS Integers, Sequences, FiniteSets, TLC

VARIABLES
    pc,                     \* position of the running code
    bom_line_items,         \* the BOM rows (header removed)
    args_pcb_quantities,    \* truthiness of args.pcb_quantities
    pcb_quantities,         \* the parsed target PCB quantities
    response_code,          \* last status code (authentication, then search)
    access_token,           \* token returned by get_access_token
    line_idx,               \* index of the BOM row the for loop is at
    num_retries,            \* retries left for that row
    keyword_search_json,    \* the payload object handed to extraction
    heap,                   \* category objects of that payload
    part_data,              \* the ComponentData being built / returned
    child_categories,       \* loop variable of the category walk
    walk_tick,              \* parity of the passes of the walk loop so far
    bom_items_digikey_data, \* the output list
    exc,                    \* exception that propagated, or "none"
    requests_issued,        \* keyword-search POSTs sent so far
    auth_failure_reports,   \* times "Authentication failed" was printed
    payload0,               \* the payload as it was when first handed over
    first_record,           \* copy of the record returned by the first call
    calls,                  \* calls of extraction on the current payload
    board_part_qty,         \* components per board handed to pricing
    fetch_log,              \* per BOM row, the status codes its searches got
    record_rows,            \* per output record, the BOM row it was made for
    cogs                    \* last value returned by get_prices_for_target_qtys

vars == <<pc, bom_line_items, args_pcb_quantities, pcb_quantities,
          response_code, access_token, line_idx, num_retries,
          keyword_search_json, heap, part_data, child_categories,
          walk_tick, bom_items_digikey_data, exc, requests_issued,
          auth_failure_reports, payload0, first_record, calls,
          board_part_qty, fetch_log, record_rows, cogs>>

(***************************************************************************)
(* Bounds of the model.                                                    *)
(***************************************************************************)
MaxTiers == 3        \* price tiers per packaging variant
MaxVariants == 3     \* packaging variants per product
MaxParams == 2       \* entries of the Parameters list
MaxNodes == 3        \* category objects in the heap
MaxChain == 4        \* category names tracked in part_data.categories
MaxLines == 2        \* BOM rows

(***************************************************************************)
(* Strings.                                                                *)
(***************************************************************************)
None == "None"

\* Python `sub in s` on strings
Contains(s, sub) ==
    \E i \in 1..(Len(s) - Len(sub) + 1) : SubSeq(s, i, i + Len(sub) - 1) = sub

\* the optional list held by ComponentData.pricing
NoneList == [none |-> TRUE, list |-> <<>>]
SomeList(l) == [none |-> FALSE, list |-> l]
\* Python truthiness of that field: None and [] are falsy
Truthy(p) == ~p.none /\ p.list # <<>>

\* dict without a key
Without(obj, key) == [k \in DOMAIN obj \ {key} |-> obj[k]]

(***************************************************************************)
(* ComponentData() : the dataclass defaults.                               *)
(***************************************************************************)
ComponentData ==
    [associated_refdes |-> <<>>,
     part_description |-> None, mfr_name |-> None, mfr_part_number |-> None,
     photo_url |-> None, datasheet_url |-> None, product_url |-> None,
     qty_available |-> None, lifecycle_status |-> None, eol_status |-> None,
     discontinued_status |-> None,
     pricing |-> NoneList,
     package_case |-> None, supplier_device_package |-> None,
     operating_temp |-> None, xy_size |-> None, height |-> None,
     thickness |-> None, ratings |-> None, grade |-> None,
     qualification |-> None,
     rohs_status |-> None, moisture_sensitivity_level |-> None,
     reach_status |-> None, eccn |-> None, htsus |-> None,
     categories |-> <<>>,
     cogs_breakdown |-> <<>>]

(***************************************************************************)
(* get_prices_for_target_qtys                                              *)
(***************************************************************************)
\* int(stdpricing["BreakQuantity"]) over the table
breakpoints(std_pricing) ==
    [i \in 1..Len(std_pricing) |-> std_pricing[i].BreakQuantity]

Min(S) == CHOOSE m \in S : \A n \in S : m <= n
Max(S) == CHOOSE m \in S : \A n \in S : m >= n
Range(f) == {f[i] : i \in DOMAIN f}

\* the forward scan of the else branch: every qualifying tier overwrites the
\* entry, so the last qualifying tier of the table is the one that stays
RECURSIVE ScanTiers(_, _, _, _)
ScanTiers(std_pricing, part_qty, i, entry) ==
    IF i > Len(std_pricing) THEN entry
    ELSE ScanTiers(std_pricing, part_qty, i + 1,
            IF part_qty >= std_pricing[i].BreakQuantity
            THEN [break_qty |-> std_pricing[i].BreakQuantity,
                  price_per_unit |-> std_pricing[i].UnitPrice,
                  total_price |-> std_pricing[i].UnitPrice * part_qty] @@ entry
            ELSE entry)

\* variant of the scan that stops at the first qualifying tier
RECURSIVE ScanTiersFirst(_, _, _, _)
ScanTiersFirst(std_pricing, part_qty, i, entry) ==
    IF i > Len(std_pricing) THEN entry
    ELSE IF part_qty >= std_pricing[i].BreakQuantity
         THEN [break_qty |-> std_pricing[i].BreakQuantity,
               price_per_unit |-> std_pricing[i].UnitPrice,
               total_price |-> std_pricing[i].UnitPrice * part_qty] @@ entry
         ELSE ScanTiersFirst(std_pricing, part_qty, i + 1, entry)

TierEntry(tier, part_qty, entry) ==
    [break_qty |-> tier.BreakQuantity,
     price_per_unit |-> tier.UnitPrice,
     total_price |-> tier.UnitPrice * part_qty] @@ entry

\* the COGS entry of one PCB quantity with the scan cut short
pricing_for_pcb_qty_first(std_pricing, single_pcb_part_qty, pcb_qty) ==
    LET part_qty == single_pcb_part_qty * pcb_qty
        entry == [pcb_qty |-> pcb_qty, total_part_qty |-> part_qty]
        bps == Range(breakpoints(std_pricing))
    IN  IF part_qty <= Min(bps) THEN TierEntry(std_pricing[1], part_qty, entry)
        ELSE IF part_qty >= Max(bps)
             THEN TierEntry(std_pricing[Len(std_pricing)], part_qty, entry)
             ELSE ScanTiersFirst(std_pricing, part_qty, 1, entry)

\* the COGS entry of one PCB quantity
pricing_for_pcb_qty(std_pricing, single_pcb_part_qty, pcb_qty) ==
    LET part_qty == single_pcb_part_qty * pcb_qty
        entry == [pcb_qty |-> pcb_qty, total_part_qty |-> part_qty]
        bps == Range(breakpoints(std_pricing))
    IN  IF part_qty <= Min(bps) THEN TierEntry(std_pricing[1], part_qty, entry)
        ELSE IF part_qty >= Max(bps)
             THEN TierEntry(std_pricing[Len(std_pricing)], part_qty, entry)
             ELSE ScanTiers(std_pricing, part_qty, 1, entry)

\* one element of pcb_qty_prices_by_part_type
pricing_for_price_type(pricing_type, single_pcb_part_qty, quantities) ==
    [package_type |-> pricing_type.PackageType,
     cogs |-> [q \in 1..Len(quantities) |->
                 pricing_for_pcb_qty(pricing_type.StandardPricing,
                                     single_pcb_part_qty, quantities[q])]]

\* the loop over part_data.pricing: variants with an empty table are skipped
RECURSIVE PricesFrom(_, _, _, _)
PricesFrom(pricing, i, single_pcb_part_qty, quantities) ==
    IF i > Len(pricing) THEN <<>>
    ELSE (IF pricing[i].StandardPricing # <<>>
          THEN <<pricing_for_price_type(pricing[i], single_pcb_part_qty,
                                        quantities)>>
          ELSE <<>>)
         \o PricesFrom(pricing, i + 1, single_pcb_part_qty, quantities)

\* variant without the `if part_data.pricing` guard: iterating None raises
get_prices_unguarded(record, single_pcb_part_qty, quantities) ==
    IF record.pricing.none
    THEN [exc |-> "TypeError", value |-> <<>>]
    ELSE IF \E i \in 1..Len(record.pricing.list) :
                "StandardPricing" \notin DOMAIN record.pricing.list[i]
         THEN [exc |-> "KeyError", value |-> <<>>]
         ELSE [exc |-> "none",
               value |-> PricesFrom(record.pricing.list, 1,
                                    single_pcb_part_qty, quantities)]

\* Result: the exception that propagates ("none" when it returns) and the
\* returned list.  The first variant without a "StandardPricing" key raises
\* KeyError; nothing is returned then.
get_prices_for_target_qtys(record, single_pcb_part_qty, quantities) ==
    IF ~Truthy(record.pricing)
    THEN [exc |-> "none", value |-> <<>>]
    ELSE IF \E i \in 1..Len(record.pricing.list) :
                "StandardPricing" \notin DOMAIN record.pricing.list[i]
         THEN [exc |-> "KeyError", value |-> <<>>]
         ELSE [exc |-> "none",
               value |-> PricesFrom(record.pricing.list, 1,
                                    single_pcb_part_qty, quantities)]

(***************************************************************************)
(* extract_data_from_digikey_search_response                               *)
(***************************************************************************)
CutTape == <<"Cut Tape">>
DigiReel == <<"Digi-Reel">>
\* the literal of line 163; the fragment "(R)" stands for the registered-trademark
\* sign that ends it
MergedName == <<"Cut Tape", " (CT)", " & ", "Digi-Reel", "(R)">>

\* the scalar assignments of lines 128-146, in order: target field, key path
ScalarPaths ==
    << [field |-> "part_description", path |-> <<"Description", "ProductDescription">>],
       [field |-> "mfr_name", path |-> <<"Manufacturer", "Name">>],
       [field |-> "mfr_part_number", path |-> <<"ManufacturerProductNumber">>],
       [field |-> "photo_url", path |-> <<"PhotoUrl">>],
       [field |-> "datasheet_url", path |-> <<"DatasheetUrl">>],
       [field |-> "product_url", path |-> <<"ProductUrl">>],
       [field |-> "qty_available", path |-> <<"QuantityAvailable">>],
       [field |-> "lifecycle_status", path |-> <<"ProductStatus", "Status">>],
       [field |-> "eol_status", path |-> <<"EndOfLife">>],
       [field |-> "discontinued_status", path |-> <<"Discontinued">>],
       [field |-> "pricing", path |-> <<"ProductVariations">>] >>

\* obj[k1] or obj[k1][k2] can be evaluated without KeyError
HasPath(obj, path) ==
    /\ path[1] \in DOMAIN obj
    /\ Len(path) = 2 => path[2] \in DOMAIN obj[path[1]]

GetPath(obj, path) ==
    IF Len(path) = 1 THEN obj[path[1]] ELSE obj[path[1]][path[2]]

\* index of the first scalar assignment that raises KeyError, 0 when none does
FirstMissingScalar(product_data) ==
    LET missing == {i \in 1..Len(ScalarPaths) :
                        ~HasPath(product_data, ScalarPaths[i].path)}
    IN  IF missing = {} THEN 0 ELSE Min(missing)

\* lines 128-146 when no key is missing
ExtractScalars(record, product_data) ==
    [f \in DOMAIN record |->
        IF \E i \in 1..Len(ScalarPaths) : ScalarPaths[i].field = f
        THEN LET i == CHOOSE j \in 1..Len(ScalarPaths) : ScalarPaths[j].field = f
             IN  IF f = "pricing"
                 THEN SomeList(GetPath(product_data, ScalarPaths[i].path))
                 ELSE GetPath(product_data, ScalarPaths[i].path)
        ELSE record[f]]

\* lines 148-160: indices of the variants whose name contains the text
VariantIdx(pricing, text) ==
    {i \in 1..Len(pricing) : Contains(pricing[i].PackageType.Name, text)}

RemoveAt(list, i) == SubSeq(list, 1, i - 1) \o SubSeq(list, i + 1, Len(list))

\* variant of the merge that removes the entry it has just renamed
MergeVariationsDropRenamed(pricing) ==
    LET cut_tape_idx == VariantIdx(pricing, CutTape)
        digi_reel_idx == VariantIdx(pricing, DigiReel)
    IN  IF cut_tape_idx # {} /\ digi_reel_idx # {}
        THEN RemoveAt([pricing EXCEPT
                          ![Min(cut_tape_idx)].PackageType.Name = MergedName],
                      Min(cut_tape_idx))
        ELSE pricing

\* lines 161-165: the list object product_data["ProductVariations"] after the
\* in-place rename and del (part_data.pricing is that same object)
MergeVariations(pricing) ==
    LET cut_tape_idx == VariantIdx(pricing, CutTape)
        digi_reel_idx == VariantIdx(pricing, DigiReel)
    IN  IF cut_tape_idx # {} /\ digi_reel_idx # {}
        THEN RemoveAt([pricing EXCEPT
                          ![Min(cut_tape_idx)].PackageType.Name = MergedName],
                      Min(digi_reel_idx))
        ELSE pricing

\* the if-statements of lines 176-200, in order
ParameterRules ==
    << [field |-> "package_case", exact |-> TRUE, text |-> <<"Package / Case">>],
       [field |-> "supplier_device_package", exact |-> TRUE,
        text |-> <<"Supplier Device Package">>],
       [field |-> "operating_temp", exact |-> TRUE,
        text |-> <<"Operating Temperature">>],
       [field |-> "xy_size", exact |-> FALSE, text |-> <<"Dimension">>],
       [field |-> "height", exact |-> FALSE, text |-> <<"Height">>],
       [field |-> "thickness", exact |-> FALSE, text |-> <<"Thickness (Max)">>],
       [field |-> "ratings", exact |-> FALSE, text |-> <<"Ratings">>],
       [field |-> "grade", exact |-> FALSE, text |-> <<"Grade">>],
       [field |-> "qualification", exact |-> FALSE, text |-> <<"Qualification">>] >>

RuleMatches(rule, name) ==
    IF rule.exact THEN name = rule.text ELSE Contains(name, rule.text)

\* the rules whose if-condition is true for the parameter
MatchingRules(parameter) ==
    IF "ParameterText" \in DOMAIN parameter
    THEN {r \in 1..Len(ParameterRules) :
              RuleMatches(ParameterRules[r], parameter.ParameterText)}
    ELSE {}

\* an elif chain instead: only the first true condition assigns
AssignedFieldsFirstRule(parameter) ==
    IF MatchingRules(parameter) = {} THEN {}
    ELSE {ParameterRules[Min(MatchingRules(parameter))].field}

\* the fields one pass of the loop body assigns
AssignedFields(parameter) ==
    {ParameterRules[r].field : r \in MatchingRules(parameter)}

\* lines 173-200 from parameter i on; st = [exc, record]
RECURSIVE ScanParameters(_, _, _)
ScanParameters(parameters, i, st) ==
    IF i > Len(parameters) \/ st.exc # "none" THEN st
    ELSE LET parameter == parameters[i]
             fields == AssignedFields(parameter)
         IN  ScanParameters(parameters, i + 1,
                IF fields = {} THEN st
                ELSE IF "ValueText" \notin DOMAIN parameter
                     THEN [st EXCEPT !.exc = "KeyError"]
                     ELSE [st EXCEPT !.record =
                             [f \in DOMAIN st.record |->
                                 IF f \in fields THEN parameter.ValueText
                                 ELSE st.record[f]]])

\* lines 203-209, in order: target field, key of product_data["Classifications"]
ClassificationKeys ==
    << [field |-> "rohs_status", key |-> "RohsStatus"],
       [field |-> "moisture_sensitivity_level", key |-> "MoistureSensitivityLevel"],
       [field |-> "reach_status", key |-> "ReachStatus"],
       [field |-> "eccn", key |-> "ExportControlClassNumber"],
       [field |-> "htsus", key |-> "HtsusCode"] >>

\* a block that guards every assignment on its own: a missing key leaves
\* only its own field null
ExtractClassificationsEach(record, product_data, i) ==
    [f \in DOMAIN record |->
        IF \E k \in i..Len(ClassificationKeys) :
              /\ ClassificationKeys[k].field = f
              /\ HasPath(product_data,
                         <<"Classifications", ClassificationKeys[k].key>>)
        THEN LET k == CHOOSE j \in i..Len(ClassificationKeys) :
                          ClassificationKeys[j].field = f
             IN  product_data.Classifications[ClassificationKeys[k].key]
        ELSE record[f]]

\* the try block from assignment i on: the first KeyError ends the block
RECURSIVE ExtractClassifications(_, _, _)
ExtractClassifications(record, product_data, i) ==
    IF i > Len(ClassificationKeys) THEN record
    ELSE IF ~HasPath(product_data, <<"Classifications", ClassificationKeys[i].key>>)
         THEN record
         ELSE ExtractClassifications(
                [record EXCEPT ![ClassificationKeys[i].field] =
                    product_data.Classifications[ClassificationKeys[i].key]],
                product_data, i + 1)

\* categories.append; names past MaxChain are not tracked by the model
AppendCategory(categories, name) ==
    IF Len(categories) < MaxChain THEN Append(categories, name) ELSE categories

\* product_data of lines 120-124 is falsy: no exact match (or an empty dict)
NoProductData(json) ==
    \/ json.ExactMatches = <<>>
    \/ DOMAIN json.ExactMatches[1] = {}

\* json with the first exact match's ProductVariations replaced
WithVariations(json, pricing) ==
    [json EXCEPT !.ExactMatches[1] =
        [k \in DOMAIN json.ExactMatches[1] |->
            IF k = "ProductVariations" THEN pricing ELSE json.ExactMatches[1][k]]]

\* Lines 116-214: everything up to the start of the category walk.
\* Result: exc (the exception that propagates, "none" otherwise), done (TRUE
\* when the function goes straight to `return part_data`), record, json (the
\* payload object afterwards) and the initial child_categories.
ExtractHead(json, objs) ==
    LET product_data == json.ExactMatches[1]
        raise(j) == [exc |-> "KeyError", done |-> FALSE, record |-> ComponentData,
                     json |-> j, child_categories |-> <<>>]
    IN
    IF NoProductData(json)
    THEN [exc |-> "none", done |-> TRUE, record |-> ComponentData,
          json |-> json, child_categories |-> <<>>]
    ELSE IF FirstMissingScalar(product_data) # 0 THEN raise(json)
    ELSE IF \E i \in 1..Len(product_data.ProductVariations) :
               ~HasPath(product_data.ProductVariations[i], <<"PackageType", "Name">>)
         THEN raise(json)
    ELSE
    LET pricing == MergeVariations(product_data.ProductVariations)
        json2 == WithVariations(json, pricing)
        r1 == [ExtractScalars(ComponentData, product_data)
                  EXCEPT !.pricing = SomeList(pricing)]
        \* lines 167-171 also create the attribute `qualifications`
        r2 == [qualifications |-> None] @@ r1
    IN
    IF "Parameters" \notin DOMAIN product_data THEN raise(json2)
    ELSE
    LET scanned == ScanParameters(product_data.Parameters, 1,
                                  [exc |-> "none", record |-> r2])
    IN
    IF scanned.exc # "none" THEN raise(json2)
    ELSE
    LET r3 == ExtractClassifications(scanned.record, product_data, 1)
    IN
    IF "Category" \notin DOMAIN product_data THEN raise(json2)
    ELSE [exc |-> "none", done |-> FALSE,
          record |-> [r3 EXCEPT !.categories =
                         AppendCategory(@, objs[product_data.Category].Name)],
          json |-> json2,
          child_categories |-> objs[product_data.Category].ChildCategories]

(***************************************************************************)
(* Payloads.                                                               *)
(***************************************************************************)
Nodes == 1..MaxNodes

Variant(name, std_pricing) ==
    [PackageType |-> [Name |-> name], StandardPricing |-> std_pricing]

TapeReel == <<"Tape & Reel (TR)">>
CutTapeCT == <<"Cut Tape", " (CT)">>
DigiReelR == <<"Digi-Reel", "(R)">>

Tier(b, p) == [BreakQuantity |-> b, UnitPrice |-> p]
BaseTable == <<Tier(2, 5), Tier(5, 3), Tier(10, 2)>>

AllClassifications ==
    [RohsStatus |-> "rohs", MoistureSensitivityLevel |-> "msl",
     ReachStatus |-> "reach", ExportControlClassNumber |-> "eccn",
     HtsusCode |-> "hts"]

\* a category chain 1 -> 2 -> 3 (first children), a tree as parsed JSON is
BaseHeap ==
    [n \in Nodes |->
        [Name |-> n,
         ChildCategories |-> IF n = 1 THEN <<2, 3>>
                             ELSE IF n = 2 THEN <<3>> ELSE <<>>]]

BaseProduct ==
    [Description |-> [ProductDescription |-> "desc"],
     Manufacturer |-> [Name |-> "mfr"],
     ManufacturerProductNumber |-> "mpn",
     PhotoUrl |-> "photo", DatasheetUrl |-> "datasheet", ProductUrl |-> "url",
     QuantityAvailable |-> "qty",
     ProductStatus |-> [Status |-> "Active"],
     EndOfLife |-> "false", Discontinued |-> "false",
     ProductVariations |-> <<Variant(TapeReel, BaseTable)>>,
     Parameters |-> <<>>,
     Classifications |-> AllClassifications,
     Category |-> 1]

Payload(product) == [ExactMatches |-> <<product>>]

With(obj, key, value) == [k \in DOMAIN obj \cup {key} |-> IF k = key THEN value ELSE obj[k]]

SeqsUpTo(S, n) == UNION {[1..k -> S] : k \in 0..n}

\* price tables
Breaks == {2, 5, 10}
Prices == {2, 3}
Tiers == {Tier(b, p) : b \in Breaks, p \in Prices}
PricingProducts ==
    {With(BaseProduct, "ProductVariations", <<Variant(TapeReel, t)>>) :
        t \in SeqsUpTo(Tiers, MaxTiers)}

\* packaging variants: the table of the variant at position i starts at i
VariantNames == {CutTapeCT, DigiReelR, TapeReel, MergedName}
TableAt(i) == <<Tier(i, 10 + i), Tier(10 * i, i)>>
VariantLists ==
    {[i \in 1..Len(names) |-> Variant(names[i], TableAt(i))] :
        names \in SeqsUpTo(VariantNames, MaxVariants)}
MergeProducts ==
    {With(BaseProduct, "ProductVariations", v) : v \in VariantLists}

\* parameters
ParameterNames ==
    { <<"Package / Case">>, <<"Supplier Device Package">>,
      <<"Operating Temperature">>, <<"Size / ", "Dimension">>,
      <<"Height", " - Seated (Max)">>, <<"Thickness (Max)">>,
      <<"Ratings">>, <<"Grade">>, <<"Qualification">>,
      <<"Tolerance">>,
      <<"Package / Case", " (Alt)">>,
      <<"Dimension", " - ", "Height">>,
      <<"Thickness (Max)", " - Seated">> }
\* every name with one value, three of them with a second value, an entry
\* without ParameterText and one without ValueText
ParameterEntries ==
    {[ParameterText |-> n, ValueText |-> "v1"] : n \in ParameterNames}
    \cup {[ParameterText |-> n, ValueText |-> "v2"] :
            n \in {<<"Grade">>, <<"Thickness (Max)">>,
                   <<"Dimension", " - ", "Height">>}}
    \cup {[ValueText |-> "v1"], [ParameterText |-> <<"Grade">>]}
ParameterProducts ==
    {With(BaseProduct, "Parameters", ps) :
        ps \in SeqsUpTo(ParameterEntries, MaxParams)}

\* classifications: the object absent, or present with any subset of its keys
ClassificationProducts ==
    {Without(BaseProduct, "Classifications")}
    \cup {With(BaseProduct, "Classifications",
               [k \in K |-> AllClassifications[k]]) :
            K \in SUBSET DOMAIN AllClassifications}

\* one expected key (or one key of a container) missing
ExpectedPaths ==
    {ScalarPaths[i].path : i \in 1..Len(ScalarPaths)}
    \cup {<<"Description">>, <<"Manufacturer">>, <<"ProductStatus">>,
          <<"Parameters">>, <<"Category">>}
Lacking(product, path) ==
    IF Len(path) = 1 THEN Without(product, path[1])
    ELSE With(product, path[1], Without(product[path[1]], path[2]))
MergeBase ==
    With(BaseProduct, "ProductVariations",
         <<Variant(CutTapeCT, TableAt(1)), Variant(DigiReelR, TableAt(2)),
           Variant(TapeReel, TableAt(3))>>)
NoTableProduct ==
    With(BaseProduct, "ProductVariations",
         <<[PackageType |-> [Name |-> TapeReel]]>>)
MissingKeyProducts ==
    {Lacking(b, path) : b \in {BaseProduct, MergeBase}, path \in ExpectedPaths}
    \cup {NoTableProduct}

\* payloads without a usable exact match, and one with two exact matches
NoMatchPayloads == {[ExactMatches |-> <<>>], [ExactMatches |-> << <<>> >>]}
TwoMatchPayload == [ExactMatches |-> <<MergeBase, BaseProduct>>]

\* category graphs: every object has no child, one child, or two children
ChildLists ==
    {<<>>} \cup {<<j>> : j \in Nodes}
    \cup {<<j, (j % MaxNodes) + 1>> : j \in Nodes}
CategoryHeaps ==
    {[n \in Nodes |-> [Name |-> n, ChildCategories |-> c[n]]] :
        c \in [Nodes -> ChildLists]}

\* what the function harness starts from: payload and category heap
FnInputs ==
    {[json |-> Payload(p), heap |-> BaseHeap] :
        p \in PricingProducts \cup MergeProducts \cup ParameterProducts
              \cup ClassificationProducts \cup MissingKeyProducts}
    \cup {[json |-> j, heap |-> BaseHeap] :
            j \in NoMatchPayloads \cup {TwoMatchPayload}}
    \cup {[json |-> Payload(BaseProduct), heap |-> h] : h \in CategoryHeaps}

\* what a search request of the main loop may return with status 200
MainPayloads ==
    {Payload(BaseProduct), Payload(MergeBase), [ExactMatches |-> <<>>],
     Payload(Without(BaseProduct, "Parameters")), Payload(NoTableProduct)}

QuantityValues == {1, 3, 10}
QuantityLists == SeqsUpTo(QuantityValues, 1) \cup {<<1, 10>>, <<10, 3>>}
MaxRefdes == 2

BomRows == {[refdes |-> <<"R1">>, mpn |-> "pn1"],
            [refdes |-> <<"C1", "C2">>, mpn |-> "pn2"]}

(***************************************************************************)
(* Steps shared by the program and the function harness.                   *)
(***************************************************************************)
\* extract_data_from_digikey_search_response is entered (lines 116-214)
CallExtract ==
    /\ pc = "extract"
    /\ LET h == ExtractHead(keyword_search_json, heap)
       IN  /\ keyword_search_json' = h.json
           /\ exc' = h.exc
           /\ pc' = IF h.exc # "none" THEN "aborted"
                    ELSE IF h.done THEN "extracted" ELSE "walk"
           /\ part_data' = IF h.exc # "none" THEN part_data ELSE h.record
           /\ child_categories' = h.child_categories
    /\ walk_tick' = 0
    /\ calls' = calls + 1
    /\ UNCHANGED <<bom_line_items, args_pcb_quantities, pcb_quantities,
                   response_code, access_token, line_idx, num_retries, heap,
                   bom_items_digikey_data, requests_issued,
                   auth_failure_reports, payload0, first_record,
                   board_part_qty, cogs, fetch_log, record_rows>>

\* one pass of the `while True` of lines 215-220
CategoryStep ==
    /\ pc = "walk"
    /\ IF child_categories # <<>>
       THEN /\ part_data' = [part_data EXCEPT !.categories =
                                AppendCategory(@, heap[child_categories[1]].Name)]
            /\ child_categories' = heap[child_categories[1]].ChildCategories
            /\ walk_tick' = 1 - walk_tick
            /\ pc' = "walk"
       ELSE /\ pc' = "extracted"
            /\ UNCHANGED <<part_data, child_categories, walk_tick>>
    /\ UNCHANGED <<bom_line_items, args_pcb_quantities, pcb_quantities,
                   response_code, access_token, line_idx, num_retries,
                   keyword_search_json, heap, bom_items_digikey_data, exc,
                   requests_issued, auth_failure_reports, payload0,
                   first_record, calls, board_part_qty, cogs,
                   fetch_log, record_rows>>

(***************************************************************************)
(* The functions on their own: extraction applied to an input payload,     *)
(* then applied again to the same object or followed by pricing.           *)
(***************************************************************************)
InitFn ==
    /\ pc = "extract"
    /\ \E in \in FnInputs :
          /\ keyword_search_json = in.json
          /\ payload0 = in.json
          /\ heap = in.heap
    /\ bom_line_items = <<>>
    /\ args_pcb_quantities = TRUE
    /\ pcb_quantities = <<>>
    /\ response_code = 200
    /\ access_token = "token"
    /\ line_idx = 0
    /\ num_retries = 0
    /\ part_data = ComponentData
    /\ child_categories = <<>>
    /\ walk_tick = 0
    /\ bom_items_digikey_data = <<>>
    /\ exc = "none"
    /\ requests_issued = 0
    /\ auth_failure_reports = 0
    /\ first_record = ComponentData
    /\ calls = 0
    /\ board_part_qty = 0
    /\ cogs = <<>>
    /\ fetch_log = <<>>
    /\ record_rows = <<>>

\* get_prices_for_target_qtys on the returned record
CallPrices ==
    /\ pc = "extracted"
    /\ calls = 1
    /\ \E qty \in 1..MaxRefdes, quantities \in QuantityLists :
          LET r == get_prices_for_target_qtys(part_data, qty, quantities)
          IN  /\ cogs' = r.value
              /\ exc' = r.exc
              /\ pc' = IF r.exc # "none" THEN "aborted" ELSE "priced"
              /\ board_part_qty' = qty
              /\ pcb_quantities' = quantities
    /\ UNCHANGED <<bom_line_items, args_pcb_quantities, response_code,
                   access_token, line_idx, num_retries, keyword_search_json,
                   heap, part_data, child_categories, walk_tick,
                   bom_items_digikey_data, requests_issued,
                   auth_failure_reports, payload0, first_record, calls,
                   fetch_log, record_rows>>

\* the caller keeps a copy of the record and hands the same payload object
\* to extraction once more
Reapply ==
    /\ pc = "extracted"
    /\ calls = 1
    /\ first_record' = part_data
    /\ pc' = "extract"
    /\ UNCHANGED <<bom_line_items, args_pcb_quantities, pcb_quantities,
                   response_code, access_token, line_idx, num_retries,
                   keyword_search_json, heap, part_data, child_categories,
                   walk_tick, bom_items_digikey_data, exc, requests_issued,
                   auth_failure_reports, payload0, calls, board_part_qty,
                   cogs, fetch_log, record_rows>>

NextFn == CallExtract \/ CategoryStep \/ CallPrices \/ Reapply

SpecFn == InitFn /\ [][NextFn]_vars

(***************************************************************************)
(* The program: the __main__ block from authentication on.                 *)
(***************************************************************************)
AuthCodes == {200, 401}
SearchCodes == {200, 503}

Init ==
    /\ pc = "auth"
    /\ bom_line_items \in SeqsUpTo(BomRows, MaxLines)
    \* --pcb_quantities empty, unparsable, or a list of integers
    /\ \/ args_pcb_quantities = FALSE /\ pcb_quantities = <<>>
       \/ args_pcb_quantities = TRUE /\ pcb_quantities \in QuantityLists
    /\ response_code = 0
    /\ access_token = None
    /\ line_idx = 0
    /\ num_retries = 0
    /\ keyword_search_json = [ExactMatches |-> <<>>]
    /\ payload0 = [ExactMatches |-> <<>>]
    /\ heap = BaseHeap
    /\ part_data = ComponentData
    /\ child_categories = <<>>
    /\ walk_tick = 0
    /\ bom_items_digikey_data = <<>>
    /\ exc = "none"
    /\ requests_issued = 0
    /\ auth_failure_reports = 0
    /\ first_record = ComponentData
    /\ calls = 0
    /\ board_part_qty = 0
    /\ cogs = <<>>
    /\ fetch_log = [i \in 1..Len(bom_line_items) |-> <<>>]
    /\ record_rows = <<>>

\* lines 366-381: get_access_token, the failure message, the empty output list
Authenticate ==
    /\ pc = "auth"
    /\ \E code \in AuthCodes :
          /\ response_code' = code
          /\ access_token' = IF code = 200 THEN "token" ELSE None
          /\ auth_failure_reports' =
                IF code # 200 THEN auth_failure_reports + 1
                ELSE auth_failure_reports
    /\ bom_items_digikey_data' = <<>>
    /\ pc' = "for"
    /\ UNCHANGED <<bom_line_items, args_pcb_quantities, pcb_quantities,
                   line_idx, num_retries, keyword_search_json, heap,
                   part_data, child_categories, walk_tick, exc,
                   requests_issued, payload0, first_record, calls,
                   board_part_qty, cogs, fetch_log, record_rows>>

\* lines 384-385: the for statement takes the next row, or the loop ends
ForNext ==
    /\ pc = "for"
    /\ IF line_idx < Len(bom_line_items)
       THEN /\ line_idx' = line_idx + 1
            /\ num_retries' = 3
            /\ pc' = "while"
       ELSE /\ pc' = "report"
            /\ UNCHANGED <<line_idx, num_retries>>
    /\ UNCHANGED <<bom_line_items, args_pcb_quantities, pcb_quantities,
                   response_code, access_token, keyword_search_json, heap,
                   part_data, child_categories, walk_tick,
                   bom_items_digikey_data, exc, requests_issued,
                   auth_failure_reports, payload0, first_record, calls,
                   board_part_qty, cogs, fetch_log, record_rows>>

\* lines 386-400 and 423-427: one search attempt.  Building the headers
\* concatenates "Bearer " and the token, which raises TypeError for None
\* before anything is posted.
Query ==
    /\ pc = "while"
    /\ IF access_token = None
       THEN /\ exc' = "TypeError"
            /\ pc' = "aborted"
            /\ UNCHANGED <<response_code, num_retries, keyword_search_json,
                           payload0, requests_issued, calls, fetch_log>>
       ELSE /\ requests_issued' = requests_issued + 1
            /\ \E code \in SearchCodes :
                  /\ response_code' = code
                  /\ fetch_log' = [fetch_log EXCEPT ![line_idx] = Append(@, code)]
                  /\ IF code = 200
                     THEN /\ \E json \in MainPayloads :
                                /\ keyword_search_json' = json
                                /\ payload0' = json
                          /\ calls' = 0
                          /\ pc' = "extract"
                          /\ UNCHANGED num_retries
                     ELSE /\ num_retries' = num_retries - 1
                          /\ pc' = IF num_retries - 1 > 0 THEN "while" ELSE "for"
                          /\ UNCHANGED <<keyword_search_json, payload0,
                                         calls>>
            /\ UNCHANGED exc
    /\ UNCHANGED <<bom_line_items, args_pcb_quantities, pcb_quantities,
                   access_token, line_idx, heap, part_data, child_categories,
                   walk_tick, bom_items_digikey_data, auth_failure_reports,
                   first_record, board_part_qty, cogs, record_rows>>

\* lines 406-422: designators, COGS breakdown, append, break
Finish ==
    /\ pc = "extracted"
    /\ LET refdes == bom_line_items[line_idx].refdes
           qty == Len(refdes)
           r == IF args_pcb_quantities
                THEN get_prices_for_target_qtys(part_data, qty, pcb_quantities)
                ELSE [exc |-> "none", value |-> part_data.cogs_breakdown]
           record == [part_data EXCEPT !.associated_refdes = refdes,
                                       !.cogs_breakdown = r.value]
       IN  /\ exc' = r.exc
           /\ board_part_qty' = IF args_pcb_quantities THEN qty ELSE board_part_qty
           /\ cogs' = IF args_pcb_quantities THEN r.value ELSE cogs
           /\ IF r.exc # "none"
              THEN /\ pc' = "aborted"
                   /\ part_data' = [part_data EXCEPT !.associated_refdes = refdes]
                   /\ UNCHANGED <<bom_items_digikey_data, record_rows>>
              ELSE /\ pc' = "for"
                   /\ part_data' = record
                   /\ bom_items_digikey_data' =
                         Append(bom_items_digikey_data, record)
                   /\ record_rows' = Append(record_rows, line_idx)
    /\ UNCHANGED <<bom_line_items, args_pcb_quantities, pcb_quantities,
                   response_code, access_token, line_idx, num_retries,
                   keyword_search_json, heap, child_categories, walk_tick,
                   requests_issued, auth_failure_reports, payload0,
                   first_record, calls, fetch_log>>

\* lines 429-462: the report and the JSON dump are written
Report ==
    /\ pc = "report"
    /\ pc' = "done"
    /\ UNCHANGED <<bom_line_items, args_pcb_quantities, pcb_quantities,
                   response_code, access_token, line_idx, num_retries,
                   keyword_search_json, heap, part_data, child_categories,
                   walk_tick, bom_items_digikey_data, exc, requests_issued,
                   auth_failure_reports, payload0, first_record, calls,
                   board_part_qty, cogs, fetch_log, record_rows>>

Next ==
    \/ Authenticate
    \/ ForNext
    \/ Query
    \/ CallExtract
    \/ CategoryStep
    \/ Finish
    \/ Report

Spec == Init /\ [][Next]_vars

\* extraction of a well-formed product over every category graph; the
\* interpreter keeps running the loop, hence the fairness condition
InitWalk ==
    /\ InitFn
    /\ keyword_search_json = Payload(BaseProduct)

SpecWalk == InitWalk /\ [][NextFn]_vars /\ WF_vars(NextFn)

(***************************************************************************)
(* Properties.                                                             *)
(***************************************************************************)
\* the first exact match of the payload as it was handed over
Product0 == payload0.ExactMatches[1]
Matched0 == ~NoProductData(payload0)
\* extraction has returned a record for the payload (nothing was raised)
Returned == calls >= 1 /\ pc \in {"extracted", "priced"}

Ascending(table) ==
    \A i \in 1..(Len(table) - 1) :
        table[i].BreakQuantity <= table[i + 1].BreakQuantity

\* greatest break quantity not exceeding n, the smallest one when none is
ApplicableBreak(table, n) ==
    LET breaks == {table[i].BreakQuantity : i \in 1..Len(table)}
        below == {b \in breaks : b <= n}
    IN  IF below = {} THEN Min(breaks) ELSE Max(below)

HasTable(variant) == variant.StandardPricing # <<>>
PricedVariants == SelectSeq(part_data.pricing.list, HasTable)

\* C1: after get_prices_for_target_qtys, every packaging variant with a
\* non-empty ascending tier table has, for each target PCB quantity Q, a COGS
\* entry with total_part_qty = per-board quantity x Q whose break_qty is the
\* greatest break quantity not exceeding total_part_qty (the smallest break
\* quantity when total_part_qty is below all of them), whose price_per_unit is
\* the unit price of a tier with that break quantity, and whose total_price
\* is price_per_unit x total_part_qty.
C1_TierSelection ==
    pc = "priced" =>
        /\ Len(cogs) = Len(PricedVariants)
        /\ \A k \in 1..Len(cogs) :
              LET table == PricedVariants[k].StandardPricing
              IN  Ascending(table) =>
                    /\ Len(cogs[k].cogs) = Len(pcb_quantities)
                    /\ \A q \in 1..Len(pcb_quantities) :
                          LET e == cogs[k].cogs[q]
                              total == board_part_qty * pcb_quantities[q]
                          IN  /\ e.pcb_qty = pcb_quantities[q]
                              /\ e.total_part_qty = total
                              /\ e.break_qty = ApplicableBreak(table, total)
                              /\ \E i \in 1..Len(table) :
                                    /\ table[i].BreakQuantity = e.break_qty
                                    /\ table[i].UnitPrice = e.price_per_unit
                              /\ e.total_price = e.price_per_unit * total

\* a three-tier table priced at a quantity strictly between two of its breaks:
\* the forward scan selects the middle tier
C1_Witness ==
    /\ pc = "priced"
    /\ Len(cogs) = 1
    /\ PricedVariants[1].StandardPricing = BaseTable
    /\ \E q \in 1..Len(pcb_quantities) :
          /\ cogs[1].cogs[q].total_part_qty = 6
          /\ cogs[1].cogs[q].break_qty = 5
          /\ cogs[1].cogs[q].total_price = 18

\* the variants of the payload as handed over, and the merge indices
Variations0 == Product0.ProductVariations
CutTapeIdx0 == VariantIdx(Variations0, CutTape)
DigiReelIdx0 == VariantIdx(Variations0, DigiReel)
HasBoth0 ==
    /\ Matched0
    /\ HasPath(Product0, <<"ProductVariations">>)
    /\ CutTapeIdx0 # {} /\ DigiReelIdx0 # {}

\* the name as the specification spells it
SpecMergedName == <<"Cut Tape", " (CT)", " & ", "Digi-Reel">>

NamedEntries(list, name) ==
    {i \in 1..Len(list) : list[i].PackageType.Name = name}

\* C2 as stated: with a Cut Tape and a Digi-Reel variant in the payload, the
\* pricing table has exactly one entry named "Cut Tape (CT) & Digi-Reel",
\* with the break points of the Cut Tape variant, no entry with "Digi-Reel"
\* as a variant of its own, and every other variant as it was.
C2_AsStated ==
    (Returned /\ calls = 1 /\ HasBoth0) =>
        LET out == part_data.pricing.list
            c == Min(CutTapeIdx0)
        IN  /\ Cardinality(NamedEntries(out, SpecMergedName)) = 1
            /\ \A i \in NamedEntries(out, SpecMergedName) :
                  out[i].StandardPricing = Variations0[c].StandardPricing
            /\ \A i \in 1..Len(out) :
                  Contains(out[i].PackageType.Name, DigiReel)
                      => out[i].PackageType.Name = SpecMergedName
            /\ \A j \in 1..Len(Variations0) :
                  (j \notin CutTapeIdx0 /\ j \notin DigiReelIdx0)
                      => \E i \in 1..Len(out) : out[i] = Variations0[j]

\* C2 amended: the first variant whose name contains "Digi-Reel" is removed;
\* the first variant whose name contains "Cut Tape", when it is another
\* variant, is renamed "Cut Tape (CT) & Digi-Reel(R)" and keeps its break
\* points; every other variant is left as it was, in the same order.  When
\* exactly one variant name contains "Cut Tape" and exactly one other contains
\* "Digi-Reel", the table has exactly one entry with the merged name and no
\* Digi-Reel entry.
C2_MergeFirstOfEach ==
    (Returned /\ calls = 1 /\ HasBoth0) =>
        LET out == part_data.pricing.list
            c == Min(CutTapeIdx0)
            d == Min(DigiReelIdx0)
            pos(j) == IF j < d THEN j ELSE j - 1
        IN  /\ Len(out) = Len(Variations0) - 1
            /\ \A j \in 1..Len(Variations0) :
                  j # d =>
                     /\ out[pos(j)].StandardPricing = Variations0[j].StandardPricing
                     /\ out[pos(j)].PackageType.Name =
                            IF j = c THEN MergedName
                            ELSE Variations0[j].PackageType.Name
            /\ (CutTapeIdx0 = {c} /\ DigiReelIdx0 = {d} /\ c # d) =>
                  /\ Cardinality(NamedEntries(out, MergedName)) = 1
                  /\ \A i \in 1..Len(out) :
                        Contains(out[i].PackageType.Name, DigiReel)
                            => out[i].PackageType.Name = MergedName

\* Digi-Reel listed before Cut Tape, and a third variant after them
C2_Witness ==
    /\ Returned /\ calls = 1 /\ HasBoth0
    /\ Len(Variations0) = 3
    /\ Variations0[1].PackageType.Name = DigiReelR
    /\ Variations0[2].PackageType.Name = CutTapeCT
    /\ Variations0[3].PackageType.Name = TapeReel
    /\ Len(part_data.pricing.list) = 2
    /\ part_data.pricing.list[1].PackageType.Name = MergedName
    /\ part_data.pricing.list[1].StandardPricing = TableAt(2)
    /\ part_data.pricing.list[2] = Variations0[3]

ScalarFields ==
    DOMAIN ComponentData
        \ {"associated_refdes", "pricing", "categories", "cogs_breakdown"}

\* every field but associated_refdes is null or empty
Sparse(record) ==
    /\ \A f \in ScalarFields : record[f] = None
    /\ DOMAIN record = DOMAIN ComponentData
    /\ record.pricing = NoneList
    /\ record.categories = <<>>
    /\ record.cogs_breakdown = <<>>

\* C3: a payload with an empty exact-match list raises nothing in extraction
\* or pricing, and the record appended to the output for it has the row's
\* designators, every scalar field null, no categories and an empty COGS
\* breakdown, whatever the target quantities.
C3_NoMatchSparse ==
    (payload0.ExactMatches = <<>> /\ calls >= 1) =>
        /\ exc = "none"
        /\ pc # "aborted"
        /\ Sparse(part_data)
        \* the row's iteration has just ended with `break`
        /\ (pc = "for" /\ num_retries > 0) =>
              /\ bom_items_digikey_data # <<>>
              /\ bom_items_digikey_data[Len(bom_items_digikey_data)] = part_data
              /\ part_data.associated_refdes = bom_line_items[line_idx].refdes

C3_Witness ==
    /\ payload0.ExactMatches = <<>> /\ calls >= 1
    /\ pc = "for" /\ num_retries > 0
    /\ args_pcb_quantities /\ pcb_quantities = <<1, 10>>
    /\ Len(bom_items_digikey_data) = 2
    /\ bom_items_digikey_data[2].associated_refdes = <<"C1", "C2">>
    /\ bom_items_digikey_data[2].cogs_breakdown = <<>>
    /\ bom_items_digikey_data[1].cogs_breakdown # <<>>

\* the matched payload lacks an expected key or container object
Lacks0 ==
    /\ Matched0
    /\ \E path \in ExpectedPaths : ~HasPath(Product0, path)

\* the scalar assignments other than the pricing table
ScalarIdx == {i \in 1..Len(ScalarPaths) : ScalarPaths[i].field # "pricing"}

\* C4 as stated: on a matched payload that lacks an expected key or container
\* object, extraction raises nothing and returns a record whose fields read
\* before the missing key have the payload's values and whose unresolved
\* fields are null.
C4_AsStated ==
    (Lacks0 /\ calls >= 1) =>
        /\ exc = "none"
        /\ pc # "aborted"
        /\ \A i \in ScalarIdx :
              part_data[ScalarPaths[i].field] =
                  IF /\ HasPath(Product0, ScalarPaths[i].path)
                     /\ (FirstMissingScalar(Product0) = 0
                            \/ i < FirstMissingScalar(Product0))
                  THEN GetPath(Product0, ScalarPaths[i].path)
                  ELSE None

\* an exception left extraction or pricing of the current row
ExtractionOrPricingError == exc # "none" /\ calls >= 1

\* C5 as stated: an error raised by extraction or pricing for one BOM row
\* does not abort the run (the loop goes on to the later rows and the report).
C5_AsStated == ExtractionOrPricingError => pc # "aborted"

\* the payload lacks the Classifications object or one of its five keys
LacksClassification0 ==
    \E i \in 1..Len(ClassificationKeys) :
        ~HasPath(Product0, <<"Classifications", ClassificationKeys[i].key>>)

\* the fields read before the classification block have the payload's values
ScalarsExtracted ==
    \A i \in ScalarIdx :
        part_data[ScalarPaths[i].field] = GetPath(Product0, ScalarPaths[i].path)

\* the category chain of the base heap was walked to its end
ChainExtracted == heap = BaseHeap => part_data.categories = <<1, 2, 3>>

\* C6 as stated: when the Classifications object or any of its five keys is
\* absent, all five classification fields of the returned record are null,
\* and the earlier fields and the category chain are extracted.
C6_AsStated ==
    (Returned /\ calls = 1 /\ Matched0 /\ LacksClassification0) =>
        /\ \A i \in 1..Len(ClassificationKeys) :
              part_data[ClassificationKeys[i].field] = None
        /\ ScalarsExtracted
        /\ ChainExtracted

\* C6 amended: each of the five classification fields, in the order
\* RohsStatus, MoistureSensitivityLevel, ReachStatus,
\* ExportControlClassNumber, HtsusCode, has the payload's value when its key
\* and all earlier keys are present and is null otherwise (so all five are
\* null when the object or RohsStatus is absent); the fields read before the
\* block and the category chain are extracted either way.
C6_PrefixOfClassifications ==
    (Returned /\ calls = 1 /\ Matched0) =>
        /\ \A i \in 1..Len(ClassificationKeys) :
              part_data[ClassificationKeys[i].field] =
                  IF \A j \in 1..i :
                        /\ "Classifications" \in DOMAIN Product0
                        /\ ClassificationKeys[j].key \in DOMAIN Product0.Classifications
                  THEN Product0.Classifications[ClassificationKeys[i].key]
                  ELSE None
        /\ ScalarsExtracted
        /\ ChainExtracted

\* ReachStatus is the only key missing: the two fields before it are set
C6_Witness ==
    /\ Returned /\ calls = 1 /\ Matched0
    /\ "Classifications" \in DOMAIN Product0
    /\ DOMAIN Product0.Classifications =
          DOMAIN AllClassifications \ {"ReachStatus"}
    /\ part_data.rohs_status = "rohs"
    /\ part_data.moisture_sensitivity_level = "msl"
    /\ part_data.reach_status = None
    /\ part_data.eccn = None
    /\ part_data.htsus = None
    /\ part_data.categories = <<1, 2, 3>>

\* the precedence table as the specification gives it
StatedRules ==
    << [field |-> "package_case", exact |-> TRUE, text |-> <<"Package / Case">>],
       [field |-> "supplier_device_package", exact |-> TRUE,
        text |-> <<"Supplier Device Package">>],
       [field |-> "operating_temp", exact |-> TRUE,
        text |-> <<"Operating Temperature">>],
       [field |-> "xy_size", exact |-> FALSE, text |-> <<"Dimension">>],
       [field |-> "height", exact |-> FALSE, text |-> <<"Height">>],
       [field |-> "thickness", exact |-> TRUE, text |-> <<"Thickness (Max)">>],
       [field |-> "ratings", exact |-> FALSE, text |-> <<"Ratings">>],
       [field |-> "grade", exact |-> FALSE, text |-> <<"Grade">>],
       [field |-> "qualification", exact |-> FALSE, text |-> <<"Qualification">>] >>
\* the same table with "Thickness (Max)" as a contains rule
IndependentRules == [StatedRules EXCEPT ![6].exact = FALSE]

RuleFields == {StatedRules[r].field : r \in 1..Len(StatedRules)}

NameMatches(rule, name) ==
    IF rule.exact THEN name = rule.text ELSE Contains(name, rule.text)

\* the parameter goes to field f only: f is the field of the first stated
\* rule its name matches
FirstRuleAssigns(parameter, f) ==
    /\ "ParameterText" \in DOMAIN parameter
    /\ LET m == {r \in 1..Len(StatedRules) :
                    NameMatches(StatedRules[r], parameter.ParameterText)}
       IN  m # {} /\ StatedRules[Min(m)].field = f

\* the parameter goes to every field whose rule its name matches
EveryRuleAssigns(parameter, f) ==
    /\ "ParameterText" \in DOMAIN parameter
    /\ \E r \in 1..Len(IndependentRules) :
          /\ IndependentRules[r].field = f
          /\ NameMatches(IndependentRules[r], parameter.ParameterText)

\* value of the last parameter assigned to f, null when there is none
LastAssigned(parameters, Assigns(_, _), f) ==
    LET idx == {i \in 1..Len(parameters) : Assigns(parameters[i], f)}
    IN  IF idx = {} THEN None ELSE parameters[Max(idx)].ValueText

\* C7 as stated: every parameter is assigned to at most one field, that of
\* the first rule of the table its name matches ("Thickness (Max)" being an
\* exact rule), and each field ends with the value of the last parameter
\* assigned to it, or null.
C7_AsStated ==
    (Returned /\ calls = 1 /\ Matched0) =>
        \A f \in RuleFields :
            part_data[f] = LastAssigned(Product0.Parameters, FirstRuleAssigns, f)

\* C7 amended: every parameter that has a ParameterText is assigned to each
\* field whose rule its name matches (the rules are tested independently,
\* and "Thickness (Max)" is a contains rule); each field ends with the value
\* of the last parameter assigned to it, or null when none is.
C7_EveryMatchingRule ==
    (Returned /\ calls = 1 /\ Matched0) =>
        \A f \in RuleFields :
            part_data[f] = LastAssigned(Product0.Parameters, EveryRuleAssigns, f)

\* a name matching two rules sets both fields, and the second parameter of
\* that name overwrites the first
C7_Witness ==
    /\ Returned /\ calls = 1 /\ Matched0
    /\ Product0.Parameters =
          <<[ParameterText |-> <<"Dimension", " - ", "Height">>, ValueText |-> "v1"],
            [ParameterText |-> <<"Dimension", " - ", "Height">>, ValueText |-> "v2"]>>
    /\ part_data.xy_size = "v2"
    /\ part_data.height = "v2"
    /\ part_data.grade = None

\* C8 as stated: extraction leaves the payload it is given as it was, and a
\* second extraction from the same payload object returns a record equal to
\* the first.
C8_AsStated ==
    /\ (calls >= 1 /\ exc = "none") => keyword_search_json = payload0
    /\ (calls = 2 /\ pc = "extracted") => part_data = first_record

\* C9 as stated: the category walk, once entered, comes to an end and
\* extraction completes, whatever the category structure.
C9_AsStated == (pc = "walk") ~> (pc = "extracted")

\* C10 as stated: after a failed authentication the failure is reported once,
\* no keyword-search request is issued, no extraction begins, and the run
\* halts (it does not go on to the report).
C10_AsStated ==
    (pc # "auth" /\ access_token = None) =>
        /\ auth_failure_reports = 1
        /\ requests_issued = 0
        /\ calls = 0
        /\ pc \notin {"report", "done"}

\* the iteration of the for loop for row i is over, or the run ended in it
RowOver(i) ==
    \/ i < line_idx
    \/ i = line_idx /\ pc \in {"for", "report", "done", "aborted"}

\* number of output records made for row i
RecordsOf(i) ==
    Cardinality({k \in 1..Len(record_rows) : record_rows[k] = i})

\* C11 as stated: the rows are searched one at a time in BOM order; a row is
\* searched at most 3 times and not again after a search returned 200; a row
\* whose iteration is over has exactly one output record when one of its
\* searches returned 200 and none otherwise; the output records are those of
\* an increasing sequence of rows and carry their row's designators.
C11_AsStated ==
    /\ Len(record_rows) = Len(bom_items_digikey_data)
    /\ \A i \in 1..Len(bom_line_items) :
          /\ i > line_idx => fetch_log[i] = <<>>
          /\ Len(fetch_log[i]) <= 3
          /\ \A k \in 1..(Len(fetch_log[i]) - 1) : fetch_log[i][k] # 200
          /\ RecordsOf(i) <= 1
          /\ RowOver(i) =>
                RecordsOf(i) = IF 200 \in Range(fetch_log[i]) THEN 1 ELSE 0
    /\ \A k \in 1..(Len(record_rows) - 1) : record_rows[k] < record_rows[k + 1]
    /\ \A k \in 1..Len(record_rows) :
          bom_items_digikey_data[k].associated_refdes =
              bom_line_items[record_rows[k]].refdes

====
